---------------------------- MODULE Spec2Model ----------------------------
(***************************************************************************)
(* Model of the ArcPy-Parquet-Tools Python toolbox: the module's import    *)
(* guard, the tools' parameter declarations, the validation handler        *)
(* ParquetToFeatureClass.updateParameters and the tools' execute methods.  *)
(*                                                                         *)
(* Text is modelled as a sequence of one-character strings so that         *)
(* pathlib's stem, str.lower, startswith and glob patterns are computed,   *)
(* not assumed.  Python's None is the empty sequence: no name, path or     *)
(* boxed number of the model is empty.                                     *)
(*                                                                         *)
(* Four specifications share the handler: Spec (folder, partitions and     *)
(* output are edited), SpecColumns (geometry type and columns), SpecSample *)
(* (sample options); SpecLoad loads the toolbox, SpecCsf is the Create     *)
(* Schema File dialog and SpecFcp the Feature Class to Parquet dialog.     *)
(***************************************************************************)
EXTENDS Integers, Sequences, FiniteSets, TLC

VARIABLES
    has_h3,        \* module flag: the h3 package is importable
    parameters,    \* ParquetToFeatureClass: the dialog's parameter objects
    exc,           \* exception raised by the last handler call ("" = none)
    call,          \* the call the last step made to an arcpy_parquet function
    last,          \* the method the framework ran last
    env,           \* toolbox loading: the Python environment and the disk
    sys_path,      \* toolbox loading: sys.path
    loaded,        \* toolbox loading: outcome of executing the module body
    csf            \* CreateSchemaFile: the dialog's parameter objects

vars == <<has_h3, parameters, exc, call, last, env, sys_path, loaded, csf>>

None == <<>>
NoExc == ""
NoCall == [fn |-> "none"]

-----------------------------------------------------------------------------
(* Text helpers                                                            *)

StartsWith(s, pre) ==
    /\ Len(s) >= Len(pre)
    /\ SubSeq(s, 1, Len(pre)) = pre

EndsWith(s, suf) ==
    /\ Len(s) >= Len(suf)
    /\ SubSeq(s, Len(s) - Len(suf) + 1, Len(s)) = suf

Contains(s, sub) ==
    \E i \in 1..(Len(s) - Len(sub) + 1) : SubSeq(s, i, i + Len(sub) - 1) = sub

UpperChars == <<"A","B","C","D","E","F","G","H","I","J","K","L","M",
                "N","O","P","Q","R","S","T","U","V","W","X","Y","Z">>
LowerChars == <<"a","b","c","d","e","f","g","h","i","j","k","l","m",
                "n","o","p","q","r","s","t","u","v","w","x","y","z">>

\* str.lower(), one character
LowerChar(c) ==
    IF \E i \in DOMAIN UpperChars : UpperChars[i] = c
    THEN LowerChars[CHOOSE i \in DOMAIN UpperChars : UpperChars[i] = c]
    ELSE c

\* str.lower()
Lower(s) == [i \in DOMAIN s |-> LowerChar(s[i])]

\* str.rfind("."), 1-based; 0 when there is no dot
LastDot(name) ==
    IF \E i \in DOMAIN name : name[i] = "."
    THEN CHOOSE i \in DOMAIN name :
            /\ name[i] = "."
            /\ \A j \in DOMAIN name : name[j] = "." => j <= i
    ELSE 0

\* pathlib's PurePath.stem: the final component without its last suffix; a
\* leading or a trailing dot does not start a suffix
Stem(name) ==
    LET i == LastDot(name)
    IN  IF 1 < i /\ i < Len(name) THEN SubSeq(name, 1, i - 1) ELSE name

\* glob pattern  <pre>*<suf>  against one path component
GlobMatch(name, pre, suf) ==
    /\ Len(name) >= Len(pre) + Len(suf)
    /\ StartsWith(name, pre)
    /\ EndsWith(name, suf)

-----------------------------------------------------------------------------
(* The disk the dialog looks at: two parent directories d1 and d2 holding  *)
(* three Parquet folders.                                                  *)
(*   d1/A   partitioned three levels deep, one first-level directory with  *)
(*          a dot in its name, a plain file beside the partitions;         *)
(*          d1/schema/part-0.csv is the schema file kept beside it         *)
(*   d2/B   flat: the part file lies directly in the folder                *)
(*   d2/C   partition directories, but no part-*.parquet anywhere          *)

n_d1 == <<"d","1">>
n_d2 == <<"d","2">>
n_A == <<"A">>
n_B == <<"B">>
n_C == <<"C">>
n_a == <<"a">>
n_b == <<"b">>
n_c == <<"c">>
n_g == <<"g">>
n_cd == <<"c",".","d">>
n_success == <<"_","S">>
n_schema == <<"s","c","h","e","m","a">>
n_part == <<"p","a","r","t","-","0",".","p","a","r","q","u","e","t">>
n_crc == <<"p","a","r","t","-","0",".","p","a","r","q","u","e","t",".","c","r","c">>
n_csv == <<"p","a","r","t","-","0",".","c","s","v">>

Dir(p) == [path |-> p, isDir |-> TRUE]
File(p) == [path |-> p, isDir |-> FALSE]

Disk ==
    { Dir(<<n_d1>>), Dir(<<n_d1, n_A>>),
      Dir(<<n_d1, n_A, n_a>>), Dir(<<n_d1, n_A, n_a, n_b>>),
      Dir(<<n_d1, n_A, n_a, n_b, n_c>>),
      File(<<n_d1, n_A, n_a, n_b, n_c, n_part>>),
      Dir(<<n_d1, n_A, n_cd>>), Dir(<<n_d1, n_A, n_cd, n_b>>),
      File(<<n_d1, n_A, n_cd, n_b, n_part>>),
      File(<<n_d1, n_A, n_success>>),
      Dir(<<n_d1, n_schema>>), File(<<n_d1, n_schema, n_csv>>),
      Dir(<<n_d2>>), Dir(<<n_d2, n_B>>), File(<<n_d2, n_B, n_part>>),
      Dir(<<n_d2, n_C>>), Dir(<<n_d2, n_C, n_a>>), Dir(<<n_d2, n_C, n_a, n_g>>),
      File(<<n_d2, n_C, n_a, n_g, n_crc>>) }

\* the folders the user can browse to
Folders == { <<n_d1, n_A>>, <<n_d2, n_B>>, <<n_d2, n_C>> }

\* the feature class paths the user can type
OutPaths == { <<"f","c">> }

IsPrefix(p, q) == Len(p) <= Len(q) /\ SubSeq(q, 1, Len(p)) = p

Name(e) == e.path[Len(e.path)]

\* Path.glob("*"): the entries directly inside dir_pth (none when dir_pth
\* is not a directory of the disk)
GlobStar(dir_pth) ==
    { e \in Disk : Len(e.path) = Len(dir_pth) + 1 /\ IsPrefix(dir_pth, e.path) }

\* Path.rglob / Path.glob("**/..."): the entries at any depth below dir_pth
Below(dir_pth) ==
    { e \in Disk : Len(e.path) > Len(dir_pth) /\ IsPrefix(dir_pth, e.path) }

\* pq.ParquetDataset(folder).schema.names
cn_id == <<"i","d">>
cn_x == <<"x">>
cn_LON == <<"L","O","N">>
cn_lat == <<"l","a","t">>
cn_Y == <<"Y">>
cn_gWKB == <<"g","W","K","B">>
cn_H3 == <<"H","3","_","9">>

SchemaNames(folder) ==
    IF folder = <<n_d1, n_A>> THEN <<cn_x, cn_LON, cn_lat, cn_gWKB, cn_H3>>
    ELSE IF folder = <<n_d2, n_B>> THEN <<cn_id, cn_Y>>
    ELSE <<>>

-----------------------------------------------------------------------------
(* ParquetToFeatureClass                                                   *)

\* ParquetToFeatureClass.get_partition_lst
get_partition_lst(dir_pth) ==
    { Stem(Name(e)) : e \in { p \in GlobStar(dir_pth) : p.isDir /\ Stem(Name(p)) # <<>> } }

\* arcpy.Parameter(...) as the toolbox constructs them
Parameter(parameterType, enabled) ==
    [ value |-> None, altered |-> FALSE, enabled |-> enabled,
      parameterType |-> parameterType, ftype |-> "", flist |-> <<>>, msg |-> "" ]

\* fltr_lst with the has_h3 test lost: H3 is always offered
fltr_lst_always_h3(h3) ==
    <<"POINT", "POLYLINE", "POLYGON", "COORDINATES", "H3">>

\* the Geometry Type filter list
fltr_lst(h3) ==
    IF h3 THEN <<"POINT", "POLYLINE", "POLYGON", "COORDINATES", "H3">>
    ELSE <<"POINT", "POLYLINE", "POLYGON", "COORDINATES">>

\* ParquetToFeatureClass.getParameterInfo
getParameterInfo(h3) ==
    [ pqt_pth |-> Parameter("Required", TRUE),
      pqt_prt_01 |-> [Parameter("Optional", FALSE) EXCEPT !.flist = {}],
      pqt_prt_02 |-> [Parameter("Optional", FALSE) EXCEPT !.flist = {}],
      pqt_prt_03 |-> [Parameter("Optional", FALSE) EXCEPT !.flist = {}],
      sptl_ref |-> [Parameter("Required", TRUE) EXCEPT !.value = <<4326>>],
      out_fc_pth |-> Parameter("Required", TRUE),
      geom_col |-> [Parameter("Optional", FALSE) EXCEPT !.ftype = "ValueList"],
      geom_type |-> [Parameter("Required", TRUE) EXCEPT
                        !.ftype = "ValueList", !.flist = fltr_lst(h3),
                        !.value = "COORDINATES"],
      x_col |-> [Parameter("Optional", TRUE) EXCEPT !.ftype = "ValueList"],
      y_col |-> [Parameter("Optional", TRUE) EXCEPT !.ftype = "ValueList"],
      h3_col |-> [Parameter("Optional", FALSE) EXCEPT !.ftype = "ValueList"],
      build_idx |-> [Parameter("Required", TRUE) EXCEPT !.value = TRUE],
      smpl |-> [Parameter("Optional", TRUE) EXCEPT !.value = FALSE],
      smpl_cnt |-> [Parameter("Optional", FALSE) EXCEPT !.value = <<100>>],
      schema_file_pth |-> [Parameter("Optional", TRUE) EXCEPT !.flist = <<"csv">>] ]

\* arcpy_parquet.utils.pyt_utils.deactivate_parameter
deactivate_parameter(param) ==
    [param EXCEPT !.enabled = FALSE, !.parameterType = "Optional"]

\* arcpy.Parameter.setErrorMessage
setErrorMessage(param, message) == [param EXCEPT !.msg = message]

PartFileError == "Cannot locate parquet \"part\" files."
SampleCountError == "Sample count must be greater than zero."

\* the frame of one updateParameters call: the parameter objects, the
\* locals that outlive the branch that binds them, and the exception raised
Frame(prm) ==
    [ prm |-> prm, p_pth |-> None, exc |-> NoExc,
      geom_col_value |-> None, x_col_value |-> None,
      y_col_value |-> None, h3_col_value |-> None ]

Raise(L, e) == [L EXCEPT !.exc = e]

\* a statement is skipped once an earlier statement of the call has raised
Raised(L) == L.exc # NoExc

\* "pre-populate the output name"
PrePopulateOutput(L) ==
    IF Raised(L) THEN L ELSE
    IF L.prm.pqt_pth.altered /\ L.prm.out_fc_pth.value = None
    THEN Raise(L, "AttributeError")     \* out_fc_pth.stem: no such attribute
    ELSE L

\* the sentinel loop over p_pth.rglob("part-*.parquet")
has_part_file(p_pth) ==
    \E e \in Below(p_pth) :
        GlobMatch(Name(e), <<"p","a","r","t","-">>, <<".","p","a","r","q","u","e","t">>)

\* populate and enable one partition dropdown when the list is not empty
FillPartition(param, prt_lst) ==
    IF prt_lst # {}
    THEN [param EXCEPT !.ftype = "ValueList", !.flist = prt_lst, !.enabled = TRUE]
    ELSE param

\* "take actions if parquet path is provided"
CheckFolder(L) ==
    IF Raised(L) THEN L ELSE
    IF ~L.prm.pqt_pth.altered THEN L
    ELSE IF L.prm.pqt_pth.value = None THEN Raise(L, "TypeError")
    ELSE
      LET p_pth == L.prm.pqt_pth.value
          checked ==
            IF ~has_part_file(p_pth)
            THEN setErrorMessage(L.prm.pqt_pth, PartFileError)
            ELSE L.prm.pqt_pth
          prt_01_lst == get_partition_lst(p_pth)
      IN  [L EXCEPT !.p_pth = p_pth,
                    !.prm.pqt_pth = checked,
                    !.prm.pqt_prt_01 = FillPartition(@, prt_01_lst)]

\* "if the partition 01 is modified, populate and enable level two"
ListLevelTwo(L) ==
    IF Raised(L) THEN L ELSE
    IF ~L.prm.pqt_prt_01.altered THEN L
    ELSE IF L.p_pth = None THEN Raise(L, "UnboundLocalError")
    ELSE IF L.prm.pqt_prt_01.value = None THEN Raise(L, "TypeError")
    ELSE
      LET prt_02_lst == get_partition_lst(Append(L.p_pth, L.prm.pqt_prt_01.value))
      IN  [L EXCEPT !.prm.pqt_prt_02 = FillPartition(@, prt_02_lst)]

\* "if the partition 02 is modified, populate and enable level three"
ListLevelThree(L) ==
    IF Raised(L) THEN L ELSE
    IF ~L.prm.pqt_prt_02.altered THEN L
    ELSE IF L.p_pth = None THEN Raise(L, "UnboundLocalError")
    ELSE IF L.prm.pqt_prt_01.value = None \/ L.prm.pqt_prt_02.value = None
         THEN Raise(L, "TypeError")
    ELSE
      LET prt_03_lst ==
            get_partition_lst(Append(Append(L.p_pth, L.prm.pqt_prt_01.value),
                                     L.prm.pqt_prt_02.value))
      IN  [L EXCEPT !.prm.pqt_prt_03 = FillPartition(@, prt_03_lst)]

\* "if a sample is desired, add ability to specify the sample count"
SampleCount(L) ==
    IF Raised(L) THEN L ELSE
    LET smpl == L.prm.smpl
        smpl_cnt == L.prm.smpl_cnt
    IN  IF smpl.value = TRUE /\ smpl_cnt.value = None
        THEN [L EXCEPT !.prm.smpl_cnt = setErrorMessage(@, SampleCountError)]
        ELSE IF smpl.value = TRUE /\ smpl_cnt.value[1] < 1
        THEN [L EXCEPT !.prm.smpl_cnt = setErrorMessage(@, SampleCountError)]
        ELSE IF smpl.altered /\ smpl.value = TRUE
        THEN [L EXCEPT !.prm.smpl_cnt.enabled = TRUE]
        ELSE IF smpl.altered /\ smpl.value = FALSE /\ smpl_cnt.value = None
        THEN [L EXCEPT !.prm.smpl_cnt.value = <<100>>]
        ELSE IF smpl.altered /\ smpl.value = FALSE /\ smpl_cnt.value[1] < 1
        THEN [L EXCEPT !.prm.smpl_cnt.value = <<100>>]
        ELSE IF smpl.altered /\ smpl.value = FALSE
        THEN [L EXCEPT !.prm.smpl_cnt.enabled = FALSE]
        ELSE L

\* one pass of "search for some logical defaults" over col_lst[i..]
RECURSIVE SearchDefaults(_, _, _)
SearchDefaults(col_lst, i, d) ==
    IF i > Len(col_lst) THEN d
    ELSE
      LET col == col_lst[i]
          d1 == IF Contains(Lower(col), <<"w","k","b">>)
                THEN [d EXCEPT !.geom_col_value = col] ELSE d
          d2 == IF Lower(col) \in { <<"x">>, <<"l","o","n">>,
                                    <<"l","o","n","g","i","t","u","d","e">> }
                THEN [d1 EXCEPT !.x_col_value = col] ELSE d1
          d3 == IF Lower(col) \in { <<"y">>, <<"l","a","t">>,
                                    <<"l","a","t","i","t","u","d","e">> }
                THEN [d2 EXCEPT !.y_col_value = col] ELSE d2
          d4 == IF StartsWith(Lower(col), <<"h","3">>)
                THEN [d3 EXCEPT !.h3_col_value = col] ELSE d3
      IN  SearchDefaults(col_lst, i + 1, d4)

\* "if an input parquet dataset is provided": read the column names
ReadColumns(L) ==
    IF Raised(L) THEN L ELSE
    IF ~L.prm.pqt_pth.altered THEN L
    ELSE
      LET col_lst == SchemaNames(L.prm.pqt_pth.value)
          d == SearchDefaults(col_lst, 1,
                  [ geom_col_value |-> None, x_col_value |-> None,
                    y_col_value |-> None, h3_col_value |-> None ])
      IN  [L EXCEPT !.prm.geom_col.flist = col_lst,
                    !.prm.x_col.flist = col_lst,
                    !.prm.y_col.flist = col_lst,
                    !.prm.h3_col.flist = col_lst,
                    !.geom_col_value = d.geom_col_value,
                    !.x_col_value = d.x_col_value,
                    !.y_col_value = d.y_col_value,
                    !.h3_col_value = d.h3_col_value]

\* make a column parameter required and give it the default when empty
Activate(param, default) ==
    [param EXCEPT !.parameterType = "Required", !.enabled = TRUE,
                  !.value = IF @ = None THEN default ELSE @]

\* "ensure correct required columns are present"
RequiredColumns(L) ==
    IF Raised(L) THEN L ELSE
    IF ~(L.prm.geom_type.altered \/ L.prm.pqt_pth.altered) THEN L
    ELSE IF L.prm.geom_type.value = "COORDINATES"
    THEN [L EXCEPT !.prm.x_col = Activate(@, L.x_col_value),
                   !.prm.y_col = Activate(@, L.y_col_value),
                   !.prm.geom_col = deactivate_parameter(@),
                   !.prm.h3_col = deactivate_parameter(@)]
    ELSE IF L.prm.geom_type.value = "H3"
    THEN [L EXCEPT !.prm.h3_col = Activate(@, L.h3_col_value),
                   !.prm.geom_col = deactivate_parameter(@),
                   !.prm.x_col = deactivate_parameter(@),
                   !.prm.y_col = deactivate_parameter(@)]
    ELSE [L EXCEPT !.prm.geom_col = Activate(@, L.geom_col_value),
                   !.prm.x_col = deactivate_parameter(@),
                   !.prm.y_col = deactivate_parameter(@),
                   !.prm.h3_col = deactivate_parameter(@)]

\* ds_pth.glob("**/schema"): every entry named schema below the parent
schm_lst(pqt_pth_value) ==
    LET ds_pth == SubSeq(pqt_pth_value, 1, Len(pqt_pth_value) - 1)
    IN  { e.path : e \in { s \in Below(ds_pth) : Name(s) = n_schema } }

\* schm_dir_pth.glob("**/part*.csv")
csv_pth_lst(schm_dir_pth) ==
    { e.path : e \in { c \in Below(schm_dir_pth) :
                         GlobMatch(Name(c), <<"p","a","r","t">>, <<".","c","s","v">>) } }

\* the first element of a glob: any element, the order is the file system's
First(lst) == IF lst = {} THEN {None} ELSE lst

\* the (schm_lst[0], csv_pth_lst[0]) pairs one call can see
SchemaPicks(prm) ==
    IF ~prm.pqt_pth.altered \/ prm.pqt_pth.value = None
    THEN { <<None, None>> }
    ELSE UNION { { <<s, c>> : c \in (IF s = None THEN {None}
                                     ELSE First(csv_pth_lst(s))) } :
                 s \in First(schm_lst(prm.pqt_pth.value)) }

\* "when parquet path is provided, search for schema"
FindSchema(L, pick) ==
    IF Raised(L) THEN L ELSE
    IF ~L.prm.pqt_pth.altered THEN L
    ELSE IF pick[1] = None THEN L       \* len(schm_lst) == 0
    ELSE IF pick[2] = None THEN L       \* len(csv_pth_lst) == 0
    ELSE [L EXCEPT !.prm.schema_file_pth.value = pick[2]]

\* ParquetToFeatureClass.updateParameters: the statements in order, each
\* on the frame the one before it left
updateParameters(prm, pick) ==
    LET S1 == { PrePopulateOutput(L) : L \in { Frame(prm) } }
        S2 == { CheckFolder(L) : L \in S1 }
        S3 == { ListLevelTwo(L) : L \in S2 }
        S4 == { ListLevelThree(L) : L \in S3 }
        S5 == { SampleCount(L) : L \in S4 }
        S6 == { ReadColumns(L) : L \in S5 }
        S7 == { RequiredColumns(L) : L \in S6 }
        S8 == { FindSchema(L, pick) : L \in S7 }
    IN  CHOOSE L \in S8 : TRUE

-----------------------------------------------------------------------------
(* The dialog: the user edits one parameter and the framework calls        *)
(* updateParameters.  altered is the framework's flag: set when the user   *)
(* gives a parameter a value, cleared when the user empties it, untouched  *)
(* by assignments the handler makes.  Messages are those of the current    *)
(* call.                                                                   *)

\* the sample counts the user can type
SampleCounts == { -1, 0, 1, 100 }

\* the user picks a column among the first MaxPick options of a dropdown
MaxPick == 1

UserPicks(flist) == { flist[i] : i \in { j \in DOMAIN flist : j <= MaxPick } }

ParamNames == DOMAIN getParameterInfo(TRUE)
PartitionParams == { "pqt_prt_01", "pqt_prt_02", "pqt_prt_03" }
ColumnParams == { "geom_col", "x_col", "y_col", "h3_col" }

Range(f) == { f[i] : i \in DOMAIN f }

ClearMessages(prm) == [n \in ParamNames |-> [prm[n] EXCEPT !.msg = ""]]

UserSets(prm, n, v) == [prm EXCEPT ![n].value = v, ![n].altered = TRUE]
UserClears(prm, n) == [prm EXCEPT ![n].value = None, ![n].altered = FALSE]

Validate(edited) ==
    \E pick \in SchemaPicks(edited) :
        \E L \in { updateParameters(ClearMessages(edited), pick) } :
            /\ parameters' = L.prm
            /\ exc' = L.exc
            /\ call' = NoCall
            /\ last' = "updateParameters"
            /\ UNCHANGED <<has_h3, env, sys_path, loaded, csf>>

SetFolder ==
    \E f \in Folders : Validate(UserSets(parameters, "pqt_pth", f))

ClearFolder ==
    /\ parameters.pqt_pth.value # None
    /\ Validate(UserClears(parameters, "pqt_pth"))

SetPartition ==
    \E n \in PartitionParams :
        /\ parameters[n].enabled
        /\ \E v \in parameters[n].flist : Validate(UserSets(parameters, n, v))

ClearPartition ==
    \E n \in PartitionParams :
        /\ parameters[n].enabled
        /\ parameters[n].value # None
        /\ Validate(UserClears(parameters, n))

SetOutput ==
    \E o \in OutPaths : Validate(UserSets(parameters, "out_fc_pth", o))

ClearOutput ==
    /\ parameters.out_fc_pth.value # None
    /\ Validate(UserClears(parameters, "out_fc_pth"))

SetGeometryType ==
    \E g \in Range(parameters.geom_type.flist) :
        Validate(UserSets(parameters, "geom_type", g))

SetColumn ==
    \E n \in ColumnParams :
        /\ parameters[n].enabled
        /\ \E v \in UserPicks(parameters[n].flist) : Validate(UserSets(parameters, n, v))

ClearColumn ==
    \E n \in ColumnParams :
        /\ parameters[n].enabled
        /\ parameters[n].value # None
        /\ Validate(UserClears(parameters, n))

SetSample ==
    \E b \in BOOLEAN : Validate(UserSets(parameters, "smpl", b))

SetSampleCount ==
    /\ parameters.smpl_cnt.enabled
    /\ \E k \in SampleCounts : Validate(UserSets(parameters, "smpl_cnt", <<k>>))

ClearSampleCount ==
    /\ parameters.smpl_cnt.enabled
    /\ parameters.smpl_cnt.value # None
    /\ Validate(UserClears(parameters, "smpl_cnt"))

\* GPLong.valueAsText and int(): decimal text
Digits == <<"0","1","2","3","4","5","6","7","8","9">>

RECURSIVE NatToText(_)
NatToText(n) ==
    IF n < 10 THEN <<Digits[n + 1]>>
    ELSE Append(NatToText(n \div 10), Digits[(n % 10) + 1])

IntToText(n) == IF n < 0 THEN <<"-">> \o NatToText(0 - n) ELSE NatToText(n)

DigitValue(c) == (CHOOSE i \in DOMAIN Digits : Digits[i] = c) - 1

RECURSIVE TextToNat(_)
TextToNat(s) ==
    IF Len(s) = 1 THEN DigitValue(s[1])
    ELSE 10 * TextToNat(SubSeq(s, 1, Len(s) - 1)) + DigitValue(s[Len(s)])

TextToInt(s) == IF s[1] = "-" THEN 0 - TextToNat(Tail(s)) ELSE TextToNat(s)

\* arcpy.Parameter.valueAsText of the Sample Count parameter
smpl_cnt_text(param) ==
    IF param.value = None THEN None ELSE IntToText(param.value[1])

partition_vals_all(prm) ==
    <<prm.pqt_prt_01.value, prm.pqt_prt_02.value, prm.pqt_prt_03.value>>

\* partition_vals: the partition values that are not None, in level order
partition_vals(prm) ==
    SelectSeq(<<prm.pqt_prt_01.value, prm.pqt_prt_02.value, prm.pqt_prt_03.value>>,
              LAMBDA p : p # None)

geometry_column_yx(prm) ==
    IF prm.geom_type.value = "COORDINATES" THEN <<prm.y_col.value, prm.x_col.value>>
    ELSE IF prm.geom_type.value = "H3" THEN prm.h3_col.value
    ELSE prm.geom_col.value

\* geometry_column: the columns of the selected geometry type
geometry_column(prm) ==
    IF prm.geom_type.value = "COORDINATES" THEN <<prm.x_col.value, prm.y_col.value>>
    ELSE IF prm.geom_type.value = "H3" THEN prm.h3_col.value
    ELSE prm.geom_col.value

\* smpl_cnt after "optionally add and format outputting a sample", for a
\* Sample Count that int() accepts
sample_count(prm) ==
    IF prm.smpl.value = TRUE
    THEN <<TextToInt(smpl_cnt_text(prm.smpl_cnt))>>
    ELSE None

\* ParquetToFeatureClass.execute: the exception it raises, or the call it
\* makes to parquet_to_feature_class
execute(prm) ==
    IF prm.smpl.value = TRUE /\ smpl_cnt_text(prm.smpl_cnt) = None
    THEN [exc |-> "TypeError", call |-> NoCall]            \* int(None)
    ELSE IF prm.out_fc_pth.value = None
    THEN [exc |-> "TypeError", call |-> NoCall]            \* Path(None)
    ELSE [exc |-> NoExc,
          call |-> [ fn |-> "parquet_to_feature_class",
                     parquet_path |-> prm.pqt_pth.value,
                     output_feature_class |-> prm.out_fc_pth.value,
                     schema_file |-> prm.schema_file_pth.value,
                     geometry_type |-> prm.geom_type.value,
                     parquet_partitions |-> partition_vals(prm),
                     geometry_column |-> geometry_column(prm),
                     spatial_reference |-> prm.sptl_ref.value,
                     sample_count |-> sample_count(prm),
                     build_spatial_index |-> prm.build_idx.value ]]

\* the framework runs a tool once every Required parameter has a value
\* (the Geometry Type dropdown and the check boxes always hold one)
RequiredFilled(prm) ==
    \A n \in ParamNames \ {"geom_type", "build_idx", "smpl"} :
        prm[n].parameterType = "Required" => prm[n].value # None

Execute ==
    /\ RequiredFilled(parameters)
    /\ \E r \in { execute(parameters) } :
           /\ exc' = r.exc
           /\ call' = r.call
    /\ last' = "execute"
    /\ UNCHANGED <<has_h3, parameters, env, sys_path, loaded, csf>>

\* the toolbox is loaded, with or without h3, and the tool's dialog opens
Init ==
    /\ has_h3 \in BOOLEAN
    /\ parameters = getParameterInfo(has_h3)
    /\ exc = NoExc
    /\ call = NoCall
    /\ last = "none"
    /\ env = None
    /\ sys_path = <<>>
    /\ loaded = "n/a"
    /\ csf = None

\* the user works on the folder, its partitions and the output
Next ==
    \/ SetFolder
    \/ ClearFolder
    \/ SetPartition
    \/ ClearPartition
    \/ SetOutput
    \/ ClearOutput
    \/ Execute

Spec == Init /\ [][Next]_vars

\* the user works on the folder, the output, the geometry type and columns
NextColumns ==
    \/ SetFolder
    \/ SetOutput
    \/ SetGeometryType
    \/ SetColumn
    \/ ClearColumn
    \/ Execute

SpecColumns == Init /\ [][NextColumns]_vars

\* the user works on the folder, the output and the sample options
NextSample ==
    \/ SetFolder
    \/ ClearFolder
    \/ SetOutput
    \/ ClearOutput
    \/ SetSample
    \/ SetSampleCount
    \/ ClearSampleCount
    \/ Execute

SpecSample == Init /\ [][NextSample]_vars

-----------------------------------------------------------------------------
(* Loading the toolbox: the module body up to the has_h3 flag              *)

pkg_name == <<"a","r","c","p","y","_","p","a","r","q","u","e","t">>
n_egg_info == pkg_name \o <<".","e","g","g","-","i","n","f","o">>
n_readme == <<"R","E","A","D","M","E",".","m","d">>
n_other == <<"o","t","h","e","r">>

\* what may lie in <toolbox dir>/../src; arcpy_parquet is the package
SrcEntries == { pkg_name, n_egg_info, n_readme, n_other }

dir_src == <<"p","r","j","/","s","r","c">>
site_packages == <<"s","i","t","e">>

GuardError ==
    "To use ArcPy-Parquet-Tools, you need to either run \"make env\" or keep the toolbox with the project."

\* [pth for pth in dir_src.glob("*") if pth.stem == "arcpy_parquet"]
pkg_dir_lst(src) == { pth \in src : Stem(pth) = pkg_name }

\* the import statement: the package is found in the environment, or in a
\* sys.path directory that holds it
import_arcpy_parquet(e, path) ==
    \/ e.importable
    \/ \E i \in DOMAIN path : path[i] = dir_src /\ pkg_name \in e.src

\* the module body: the import guard, the import, the has_h3 flag
LoadModule(e, path) ==
    LET guarded ==
            IF ~e.importable
            THEN IF pkg_dir_lst(e.src) = {}
                 THEN [raised |-> GuardError, path |-> path]
                 ELSE [raised |-> NoExc, path |-> <<dir_src>> \o path]
            ELSE [raised |-> NoExc, path |-> path]
    IN  IF guarded.raised # NoExc
        THEN [loaded |-> "Exception", exc |-> guarded.raised,
              path |-> guarded.path, has_h3 |-> FALSE]
        ELSE IF ~import_arcpy_parquet(e, guarded.path)
        THEN [loaded |-> "ModuleNotFoundError", exc |-> "ModuleNotFoundError",
              path |-> guarded.path, has_h3 |-> FALSE]
        ELSE [loaded |-> "ok", exc |-> NoExc, path |-> guarded.path, has_h3 |-> e.h3]

LoadToolbox ==
    /\ loaded = "no"
    /\ \E r \in { LoadModule(env, sys_path) } :
           /\ loaded' = r.loaded
           /\ exc' = r.exc
           /\ sys_path' = r.path
           /\ has_h3' = r.has_h3
    /\ last' = "load"
    /\ UNCHANGED <<parameters, call, env, csf>>

\* any environment, any content of the src directory, before the load
InitLoad ==
    /\ env \in [ importable : BOOLEAN, h3 : BOOLEAN, src : SUBSET SrcEntries,
                  path : { <<>>, <<site_packages>> } ]
    /\ sys_path = env.path
    /\ loaded = "no"
    /\ has_h3 = FALSE
    /\ exc = NoExc
    /\ call = NoCall
    /\ last = "none"
    /\ parameters = None
    /\ csf = None

NextLoad == LoadToolbox

SpecLoad == InitLoad /\ [][NextLoad]_vars

-----------------------------------------------------------------------------
(* CreateSchemaFile                                                        *)

\* CreateSchemaFile.getParameterInfo
csf_getParameterInfo ==
    [ tmplt_fc_pth |-> Parameter("Required", TRUE),
      schema_file_pth |-> Parameter("Optional", TRUE) ]

\* the paths the user can type
TemplatePaths == { <<"t","1">>, <<"t","2">>, <<"t","3">>, <<"t","4">>, <<"t","5">> }
SchemaPaths == { <<"s","1">>, <<"s","2">>, <<"s","3">>, <<"s","4">>, <<"s","5">> }

\* CreateSchemaFile.execute: the exception it raises, or the call it makes
csf_execute(prm) ==
    IF prm.tmplt_fc_pth.value = None
    THEN [exc |-> "TypeError", call |-> NoCall]            \* Path(None)
    ELSE IF prm.schema_file_pth.value = None
    THEN [exc |-> "TypeError", call |-> NoCall]            \* Path(None)
    ELSE [exc |-> NoExc,
          call |-> [ fn |-> "create_schema_file",
                     template_feature_class_path |-> prm.tmplt_fc_pth.value,
                     output_schema_file |-> prm.schema_file_pth.value ]]

\* CreateSchemaFile.updateParameters returns at once, without raising and
\* without a call: an edit changes the edited parameter only
CsfSetTemplate ==
    /\ \E t \in TemplatePaths : csf' = UserSets(csf, "tmplt_fc_pth", t)
    /\ exc' = NoExc
    /\ call' = NoCall
    /\ last' = "updateParameters"
    /\ UNCHANGED <<has_h3, parameters, env, sys_path, loaded>>

CsfSetSchema ==
    /\ \E f \in SchemaPaths : csf' = UserSets(csf, "schema_file_pth", f)
    /\ exc' = NoExc
    /\ call' = NoCall
    /\ last' = "updateParameters"
    /\ UNCHANGED <<has_h3, parameters, env, sys_path, loaded>>

CsfClearSchema ==
    /\ csf.schema_file_pth.value # None
    /\ csf' = UserClears(csf, "schema_file_pth")
    /\ exc' = NoExc
    /\ call' = NoCall
    /\ last' = "updateParameters"
    /\ UNCHANGED <<has_h3, parameters, env, sys_path, loaded>>

\* the framework runs the tool once its Required parameter has a value
CsfExecute ==
    /\ csf.tmplt_fc_pth.value # None
    /\ \E r \in { csf_execute(csf) } :
           /\ exc' = r.exc
           /\ call' = r.call
    /\ last' = "execute"
    /\ UNCHANGED <<has_h3, parameters, env, sys_path, loaded, csf>>

InitCsf ==
    /\ has_h3 \in BOOLEAN
    /\ csf = csf_getParameterInfo
    /\ exc = NoExc
    /\ call = NoCall
    /\ last = "none"
    /\ parameters = None
    /\ env = None
    /\ sys_path = <<>>
    /\ loaded = "n/a"

NextCsf ==
    \/ CsfSetTemplate
    \/ CsfSetSchema
    \/ CsfClearSchema
    \/ CsfExecute

SpecCsf == InitCsf /\ [][NextCsf]_vars

-----------------------------------------------------------------------------
(* FeatureClassToParquet                                                   *)

\* the geometry formats, as text
gf_WKB == <<"W","K","B">>
gf_WKT == <<"W","K","T">>
gf_XY == <<"X","Y">>

fcp_fltr_lst_wkx == << gf_WKB, <<"W","K","X">>, gf_XY >>

\* geometry_format.filter.list
fcp_fltr_lst == << gf_WKB, gf_WKT, gf_XY >>

\* FeatureClassToParquet.getParameterInfo
fcp_getParameterInfo ==
    [ input_table |-> Parameter("Required", TRUE),
      pqt_pth |-> Parameter("Required", TRUE),
      geometry_format |->
          [ Parameter("Required", TRUE) EXCEPT
                !.ftype = "ValueList", !.flist = fcp_fltr_lst, !.value = gf_WKB ] ]

\* the layers of the map and the feature classes they show
lyr_1 == <<"l","y","r","1">>
lyr_2 == <<"l","y","r","2">>
fc_1 == <<"g","d","b","/","f","c","1">>
fc_2 == <<"g","d","b","/","f","c","2">>

\* what the user can give as Input Feature Class: a layer or a path
InputTables == { lyr_1, lyr_2, fc_1, fc_2 }

\* the folders the user can type as Output Parquet
OutputFolders == { <<"o","1">>, <<"o","2">> }

\* arcpy.Describe(in_tbl).catalogPath: a layer's data source, a path itself
catalogPath(in_tbl) ==
    IF in_tbl = lyr_1 THEN fc_1
    ELSE IF in_tbl = lyr_2 THEN fc_2
    ELSE in_tbl

fcp_batch_size == 300000

\* FeatureClassToParquet.execute: the exception it raises, or the call it
\* makes
fcp_execute(prm) ==
    IF prm.input_table.value = None
    THEN [exc |-> "OSError", call |-> NoCall]              \* Describe(None)
    ELSE IF prm.pqt_pth.value = None
    THEN [exc |-> "TypeError", call |-> NoCall]            \* Path(None)
    ELSE [exc |-> NoExc,
          call |-> [ fn |-> "feature_class_to_parquet",
                     input_table |-> catalogPath(prm.input_table.value),
                     output_parquet |-> prm.pqt_pth.value,
                     include_geometry |-> TRUE,
                     geometry_format |-> prm.geometry_format.value,
                     batch_size |-> fcp_batch_size ]]

\* FeatureClassToParquet.updateParameters returns at once: an edit changes
\* the edited parameter only
FcpEdit(edited) ==
    /\ parameters' = edited
    /\ exc' = NoExc
    /\ call' = NoCall
    /\ last' = "updateParameters"
    /\ UNCHANGED <<has_h3, env, sys_path, loaded, csf>>

FcpSetInput ==
    \E t \in InputTables : FcpEdit(UserSets(parameters, "input_table", t))

FcpClearInput ==
    /\ parameters.input_table.value # None
    /\ FcpEdit(UserClears(parameters, "input_table"))

FcpSetOutput ==
    \E f \in OutputFolders : FcpEdit(UserSets(parameters, "pqt_pth", f))

FcpClearOutput ==
    /\ parameters.pqt_pth.value # None
    /\ FcpEdit(UserClears(parameters, "pqt_pth"))

\* the dropdown offers the values of the filter list
FcpSetFormat ==
    \E g \in Range(parameters.geometry_format.flist) :
        FcpEdit(UserSets(parameters, "geometry_format", g))

FcpClearFormat ==
    /\ parameters.geometry_format.value # None
    /\ FcpEdit(UserClears(parameters, "geometry_format"))

\* the framework runs the tool once every Required parameter has a value
FcpExecute ==
    /\ \A n \in DOMAIN parameters :
           parameters[n].parameterType = "Required" => parameters[n].value # None
    /\ \E r \in { fcp_execute(parameters) } :
           /\ exc' = r.exc
           /\ call' = r.call
    /\ last' = "execute"
    /\ UNCHANGED <<has_h3, parameters, env, sys_path, loaded, csf>>

InitFcp ==
    /\ has_h3 \in BOOLEAN
    /\ parameters = fcp_getParameterInfo
    /\ exc = NoExc
    /\ call = NoCall
    /\ last = "none"
    /\ env = None
    /\ sys_path = <<>>
    /\ loaded = "n/a"
    /\ csf = None

NextFcp ==
    \/ FcpSetInput
    \/ FcpClearInput
    \/ FcpSetOutput
    \/ FcpClearOutput
    \/ FcpSetFormat
    \/ FcpClearFormat
    \/ FcpExecute

SpecFcp == InitFcp /\ [][NextFcp]_vars

-----------------------------------------------------------------------------
(* Properties                                                              *)

\* the names of the directories directly inside a path of the disk
ChildDirs(path) ==
    { Name(e) : e \in { d \in Disk : /\ d.isDir
                                     /\ Len(d.path) = Len(path) + 1
                                     /\ IsPrefix(path, d.path) } }

\* the path a partition dropdown lists: the folder plus the upstream values
\* (None when the folder or an upstream value is missing)
ParentPath(prm, level) ==
    IF prm.pqt_pth.value = None THEN None
    ELSE IF level = 1 THEN prm.pqt_pth.value
    ELSE IF prm.pqt_prt_01.value = None THEN None
    ELSE IF level = 2 THEN Append(prm.pqt_pth.value, prm.pqt_prt_01.value)
    ELSE IF prm.pqt_prt_02.value = None THEN None
    ELSE Append(Append(prm.pqt_pth.value, prm.pqt_prt_01.value), prm.pqt_prt_02.value)

Options(prm, level) ==
    IF ParentPath(prm, level) = None THEN {} ELSE ChildDirs(ParentPath(prm, level))

PartitionParam(prm, level) ==
    IF level = 1 THEN prm.pqt_prt_01
    ELSE IF level = 2 THEN prm.pqt_prt_02 ELSE prm.pqt_prt_03

\* C1: after every updateParameters call, each enabled partition dropdown
\* lists exactly the child directories of the current folder joined with the
\* currently selected upstream partitions; nothing is left from an earlier
\* folder or upstream choice.
C1_OptionsAreCurrent ==
    last = "updateParameters" =>
        \A level \in 1..3 :
            PartitionParam(parameters, level).enabled =>
                PartitionParam(parameters, level).flist = Options(parameters, level)

\* the part of C1 that is about leftovers alone: after a call that found the
\* folder without child directories, the first dropdown offers nothing
C1_NoLeftover ==
    (/\ last = "updateParameters"
     /\ exc = NoExc
     /\ parameters.pqt_pth.altered
     /\ ChildDirs(parameters.pqt_pth.value) = {})
        => (parameters.pqt_prt_01.enabled => parameters.pqt_prt_01.flist = {})

\* the parameter whose alteration makes updateParameters list a level
Upstream(prm, level) ==
    IF level = 1 THEN prm.pqt_pth
    ELSE IF level = 2 THEN prm.pqt_prt_01 ELSE prm.pqt_prt_02

\* C2: in a call where the parameter upstream of a partition level is
\* altered and the level's parent path has child directories, the level's
\* dropdown becomes enabled with a value list equal to those directories; a
\* level whose parent path has no child directory is not enabled by the call.
C2_LevelsFollowTheDisk ==
    [][ last' = "updateParameters" =>
          \A level \in 1..3 :
              Upstream(parameters', level).altered =>
                  IF Options(parameters', level) # {}
                  THEN /\ PartitionParam(parameters', level).enabled
                       /\ PartitionParam(parameters', level).ftype = "ValueList"
                       /\ PartitionParam(parameters', level).flist
                              = Options(parameters', level)
                  ELSE ~PartitionParam(parameters, level).enabled
                           => ~PartitionParam(parameters', level).enabled ]_vars

\* the folders of the disk with a part-*.parquet file at some depth
FoldersWithPartFiles == { <<n_d1, n_A>>, <<n_d2, n_B>> }

\* C3: in a call where the Parquet Folder is altered, the part-file error is
\* set on the folder parameter when no part-*.parquet file lies at any depth
\* under the folder, and no error is set on it when one does.
C3_PartFileMessage ==
    (last = "updateParameters" /\ parameters.pqt_pth.altered) =>
        IF parameters.pqt_pth.value \in FoldersWithPartFiles
        THEN parameters.pqt_pth.msg = ""
        ELSE parameters.pqt_pth.msg = PartFileError

\* C10: a call with the Parquet Folder altered and the output empty gives
\* the output a value and goes on with the remaining updates; a call never
\* changes an output that has a value.
C10_OutputPrePopulated ==
    [][ last' = "updateParameters" =>
          /\ parameters'.pqt_pth.altered =>
                 /\ parameters'.out_fc_pth.value # None
                 /\ exc' = NoExc
          /\ (parameters.out_fc_pth.value # None /\ ~(SetOutput \/ ClearOutput)) =>
                 parameters'.out_fc_pth.value = parameters.out_fc_pth.value ]_vars

\* C4: in every call, when Export Sample is True and Sample Count is empty
\* or below 1 the sample-count error is set on Sample Count and the call
\* does not raise; when Export Sample is True and Sample Count is 1 or more
\* no error is set on Sample Count.
C4_SampleCountMessage ==
    (last = "updateParameters" /\ parameters.smpl.value = TRUE) =>
        IF parameters.smpl_cnt.value = None \/ parameters.smpl_cnt.value[1] < 1
        THEN /\ parameters.smpl_cnt.msg = SampleCountError
             /\ exc = NoExc
        ELSE parameters.smpl_cnt.msg = ""

\* the column parameters that belong to a geometry type
SelectedColumns(geometry_type) ==
    IF geometry_type = "COORDINATES" THEN { "x_col", "y_col" }
    ELSE IF geometry_type = "H3" THEN { "h3_col" }
    ELSE { "geom_col" }

\* C5: after every call in which Geometry Type or Parquet Folder is altered,
\* the column parameters of the selected geometry type are enabled and
\* Required and every other column parameter is disabled.
C5_ActiveColumns ==
    (/\ last = "updateParameters"
     /\ parameters.geom_type.altered \/ parameters.pqt_pth.altered) =>
        \A c \in ColumnParams :
            IF c \in SelectedColumns(parameters.geom_type.value)
            THEN parameters[c].enabled /\ parameters[c].parameterType = "Required"
            ELSE ~parameters[c].enabled

\* the default each column parameter is to get per folder: the last column,
\* in schema order, whose lower-cased name fits the parameter
ExpectedDefault(c, folder) ==
    IF folder = <<n_d1, n_A>>
    THEN (IF c = "geom_col" THEN cn_gWKB
          ELSE IF c = "x_col" THEN cn_LON
          ELSE IF c = "y_col" THEN cn_lat ELSE cn_H3)
    ELSE IF folder = <<n_d2, n_B>> /\ c = "y_col" THEN cn_Y
    ELSE None

ExpectedColumns(folder) ==
    IF folder = <<n_d1, n_A>> THEN <<cn_x, cn_LON, cn_lat, cn_gWKB, cn_H3>>
    ELSE IF folder = <<n_d2, n_B>> THEN <<cn_id, cn_Y>>
    ELSE <<>>

\* C6: in a call where the Parquet Folder is altered the four column
\* dropdowns list the schema's column names, and each active column
\* parameter that is empty when the call starts (never set, or just cleared
\* by the user) leaves the call holding the inferred default, which is empty
\* when no column fits.
C6_ColumnDefaults ==
    [][ (last' = "updateParameters" /\ parameters'.pqt_pth.altered) =>
          /\ \A c \in ColumnParams :
                 parameters'[c].flist = ExpectedColumns(parameters'.pqt_pth.value)
          /\ \A c \in SelectedColumns(parameters'.geom_type.value) :
                 (/\ ~parameters'[c].altered
                  /\ parameters[c].value = None \/ parameters[c].altered) =>
                     parameters'[c].value
                         = ExpectedDefault(c, parameters'.pqt_pth.value) ]_vars

\* C7: loading the toolbox changes nothing when arcpy_parquet is importable;
\* otherwise, when the src directory holds the arcpy_parquet package, src is
\* put first on sys.path and the import succeeds; otherwise loading raises
\* the guard's Exception instead of failing at the import statement.
C7_ImportGuard ==
    loaded # "no" =>
        IF env.importable
        THEN loaded = "ok" /\ sys_path = env.path
        ELSE IF pkg_name \in env.src
        THEN loaded = "ok" /\ sys_path = <<dir_src>> \o env.path
        ELSE loaded = "Exception" /\ exc = GuardError

\* C8: the Geometry Type dropdown offers POINT, POLYLINE, POLYGON and
\* COORDINATES, and H3 exactly when h3 is importable; it starts at
\* COORDINATES; execute never passes geometry_type H3 without h3.
C8_H3OnlyWithH3 ==
    /\ Range(parameters.geom_type.flist)
           = { "POINT", "POLYLINE", "POLYGON", "COORDINATES" }
                 \cup (IF has_h3 THEN { "H3" } ELSE {})
    /\ ~parameters.geom_type.altered => parameters.geom_type.value = "COORDINATES"
    /\ (call.fn = "parquet_to_feature_class" /\ ~has_h3) => call.geometry_type # "H3"

\* C8 witness: without h3, execute has passed a geometry type the user chose
C8_Witness ==
    /\ ~has_h3
    /\ parameters.geom_type.altered
    /\ call.fn = "parquet_to_feature_class"
    /\ call.geometry_type = "POLYGON"

\* C9: CreateSchemaFile.execute reaches create_schema_file with the template
\* path and the schema path, without raising, for every assignment the
\* declarations allow, Schema File left empty included.
C9_ExecuteReachesCall ==
    last = "execute" =>
        /\ exc = NoExc
        /\ call.fn = "create_schema_file"
        /\ call.template_feature_class_path = csf.tmplt_fc_pth.value
        /\ call.output_schema_file = csf.schema_file_pth.value


\* C11: FeatureClassToParquet.execute makes one feature_class_to_parquet
\* call with the catalog path of the input layer, the output folder,
\* include_geometry True, batch_size 300000 and a geometry_format among WKB,
\* WKT and XY, which is WKB when the user changed nothing.
C11_FcpCall ==
    last = "execute" =>
        /\ exc = NoExc
        /\ call.fn = "feature_class_to_parquet"
        /\ call.input_table \in { fc_1, fc_2 }
        /\ parameters.input_table.value = lyr_1 => call.input_table = fc_1
        /\ parameters.input_table.value = lyr_2 => call.input_table = fc_2
        /\ parameters.input_table.value \in { fc_1, fc_2 }
               => call.input_table = parameters.input_table.value
        /\ call.output_parquet = parameters.pqt_pth.value
        /\ call.include_geometry = TRUE
        /\ call.batch_size = 300000
        /\ call.geometry_format \in { gf_WKB, gf_WKT, gf_XY }
        /\ ~parameters.geometry_format.altered => call.geometry_format = gf_WKB

\* C11 witness: the tool has run on a layer with the format left alone
C11_Witness ==
    /\ last = "execute"
    /\ call.fn = "feature_class_to_parquet"
    /\ parameters.input_table.value = lyr_2
    /\ call.input_table = fc_2
    /\ ~parameters.geometry_format.altered
    /\ call.geometry_format = gf_WKB


\* C12: in every dialog state, before and after every updateParameters
\* call, Sample Count is enabled exactly when Export Sample is True,
\* whatever value Sample Count holds.
C12_SampleCountFollowsSample ==
    parameters.smpl_cnt.enabled <=> (parameters.smpl.value = TRUE)


\* C13: updateParameters never raises: in a call with pqt_prt_01 altered the
\* Parquet Folder is altered too, so the folder path is bound, and in a call
\* with pqt_prt_02 altered the folder path is bound and pqt_prt_01 has a
\* value, also after the folder or pqt_prt_01 was cleared.
C13_NeverRaises ==
    last = "updateParameters" =>
        /\ exc = NoExc
        /\ parameters.pqt_prt_01.altered => parameters.pqt_pth.altered
        /\ parameters.pqt_prt_02.altered =>
               /\ parameters.pqt_pth.altered
               /\ parameters.pqt_prt_01.value # None


\* C14: execute passes as geometry_column the list [x_col, y_col], in that
\* order, for COORDINATES, the h3_col value for H3 and the geom_col value for
\* every other geometry type; the values of the column parameters of the
\* other geometry types do not reach the call.
C14_GeometryColumn ==
    (last = "execute" /\ call.fn = "parquet_to_feature_class") =>
        /\ call.geometry_type = parameters.geom_type.value
        /\ IF call.geometry_type = "COORDINATES"
           THEN /\ Len(call.geometry_column) = 2
                /\ call.geometry_column[1] = parameters.x_col.value
                /\ call.geometry_column[2] = parameters.y_col.value
           ELSE IF call.geometry_type = "H3"
           THEN call.geometry_column = parameters.h3_col.value
           ELSE call.geometry_column = parameters.geom_col.value

\* C14 witness: the tool has run on coordinate columns that differ while
\* the geometry column parameter holds a value of its own
C14_Witness ==
    /\ last = "execute"
    /\ call.fn = "parquet_to_feature_class"
    /\ call.geometry_type = "COORDINATES"
    /\ parameters.x_col.value # parameters.y_col.value
    /\ parameters.geom_col.value # None
    /\ call.geometry_column = <<parameters.x_col.value, parameters.y_col.value>>


\* the partition values of the dialog, by level
LevelValues(prm) ==
    [ level \in 1..3 |-> PartitionParam(prm, level).value ]

\* the levels that hold a value
SetLevels(prm) == { level \in 1..3 : LevelValues(prm)[level] # None }

\* C15: execute passes as parquet_partitions the values of pqt_prt_01,
\* pqt_prt_02 and pqt_prt_03 in level order with every unset level left out:
\* the list is empty when no partition is selected and holds no None.
C15_PartitionList ==
    (last = "execute" /\ call.fn = "parquet_to_feature_class") =>
        /\ Len(call.parquet_partitions) = Cardinality(SetLevels(parameters))
        /\ \A i \in DOMAIN call.parquet_partitions :
               call.parquet_partitions[i] # None
        /\ \A level \in SetLevels(parameters) :
               call.parquet_partitions[
                   Cardinality({ l \in SetLevels(parameters) : l <= level }) ]
                   = LevelValues(parameters)[level]

\* C15 witness: the tool has run with the first and third level set and the
\* second level empty
C15_Witness ==
    /\ last = "execute"
    /\ call.fn = "parquet_to_feature_class"
    /\ SetLevels(parameters) = { 1, 3 }
    /\ Len(call.parquet_partitions) = 2

\* C16: whenever execute runs, the parquet_partitions list is a path prefix
\* of the partition tree: no level is passed without the level above it, and
\* the list joined onto the Parquet Folder is a directory of the disk.
C16_PartitionPrefix ==
    (last = "execute" /\ call.fn = "parquet_to_feature_class") =>
        /\ \A level \in 2..3 :
               level \in SetLevels(parameters) => (level - 1) \in SetLevels(parameters)
        /\ Dir(call.parquet_path \o call.parquet_partitions) \in Disk


\* C17: execute passes sample_count None whenever Export Sample is not True,
\* whatever Sample Count holds, and the integer value of Sample Count
\* whenever Export Sample is True.
C17_SampleCountPassed ==
    last = "execute" =>
        /\ call.fn = "parquet_to_feature_class"
        /\ IF parameters.smpl.value = TRUE
           THEN /\ parameters.smpl_cnt.value # None
                /\ call.sample_count = parameters.smpl_cnt.value
           ELSE call.sample_count = None


\* C18: a call with the Parquet Folder altered that finds no part file sets
\* the part-file error and still does the rest: it lists the first-level
\* partitions, reads the dataset's column names into the column dropdowns
\* and searches for a schema file.
C18_ErrorDoesNotIsolate ==
    [][ (/\ last' = "updateParameters"
         /\ parameters'.pqt_pth.altered
         /\ parameters'.pqt_pth.value \notin FoldersWithPartFiles) =>
            /\ parameters'.pqt_pth.msg = PartFileError
            /\ Options(parameters', 1) # {} =>
                   /\ parameters'.pqt_prt_01.enabled
                   /\ parameters'.pqt_prt_01.flist = Options(parameters', 1)
            /\ \A c \in ColumnParams :
                   parameters'[c].flist = ExpectedColumns(parameters'.pqt_pth.value)
            /\ parameters'.schema_file_pth.value
                   \in (IF schm_lst(parameters'.pqt_pth.value) = {}
                        THEN { parameters.schema_file_pth.value }
                        ELSE UNION { csv_pth_lst(d) :
                                       d \in schm_lst(parameters'.pqt_pth.value) })
      ]_vars

=============================================================================
